---- MODULE Spec2Model ----
(***************************************************************************)
(* pyXDSM: the XDSM class of src/pyxdsm/XDSM.py as a state machine.        *)
(*                                                                         *)
(* The state is one XDSM instance (its seven collections) together with    *)
(* what the most recent call on it produced.  Every                        *)
(* builder method and write() is one action.  Python lists are sequences,  *)
(* Python dicts are sequences of <<key, value>> pairs in insertion order,  *)
(* and every piece of markup is the string the code formats.  Indices are  *)
(* 0-based as in the source: the grid is a function on 0..size-1.          *)
(***************************************************************************)
EXTENDS Integers, Sequences, FiniteSets, TLC

VARIABLES comps, connections, left_outs, right_outs, ins, processes,
          process_arrows, result

vars == <<comps, connections, left_outs, right_outs, ins, processes,
          process_arrows, result>>

-----------------------------------------------------------------------------
(* Bounds of the exploration. *)

\* Spec: the number of components, connections, markers and process
\* sequences a model holds
MaxItems == 4

\* SpecChain: the number of process sequences plus the number of their entries
ChainMaxWeight == 6

-----------------------------------------------------------------------------
(* Python values. *)

None == "None"

\* A label argument: a str (isList = FALSE, one part) or a tuple/list of strs.
Str(s) == [isList |-> FALSE, parts |-> <<s>>]

List(l) == [isList |-> TRUE, parts |-> l]

\* sep.join(parts)
RECURSIVE Join(_, _)
Join(parts, sep) ==
    IF parts = <<>> THEN ""
    ELSE IF Len(parts) = 1 THEN parts[1]
    ELSE parts[1] \o sep \o Join(Tail(parts), sep)

\* dict: the keys in insertion order, membership, lookup, and d[k] = v, which
\* keeps the position of a key already present and appends a new key.
Keys(d) == [n \in 1..Len(d) |-> d[n][1]]

HasKey(d, k) == \E n \in 1..Len(d) : d[n][1] = k

Get(d, k) == d[CHOOSE n \in 1..Len(d) : d[n][1] = k][2]

\* d[k] = v on a list of pairs: always appends
DictSet_append(d, k, v) == Append(d, <<k, v>>)

DictSet(d, k, v) ==
    IF HasKey(d, k)
    THEN [n \in 1..Len(d) |-> IF d[n][1] = k THEN <<k, v>> ELSE d[n]]
    ELSE Append(d, <<k, v>>)

\* x in list
In(x, list) == \E n \in 1..Len(list) : list[n] = x

-----------------------------------------------------------------------------
(* What a call produces. *)

Returned == [kind |-> "None"]

ValueError(msg) == [kind |-> "ValueError", msg |-> msg]

KeyError(key) == [kind |-> "KeyError", key |-> key]

-----------------------------------------------------------------------------
(* The builder methods. *)

Init ==
    /\ comps = <<>>
    /\ connections = <<>>
    /\ left_outs = <<>>
    /\ right_outs = <<>>
    /\ ins = <<>>
    /\ processes = <<>>
    /\ process_arrows = <<>>
    /\ result = Returned

add_system(node_name, style, label, stack, faded, text_width) ==
    /\ comps' = Append(comps, [node_name |-> node_name, style |-> style,
                               label |-> label, stack |-> stack,
                               faded |-> faded, text_width |-> text_width])
    /\ UNCHANGED <<connections, left_outs, right_outs, ins, processes, process_arrows>>
    /\ result' = Returned

add_input(name, label, style, stack) ==
    /\ result' = Returned
    /\ UNCHANGED <<comps, connections, left_outs, right_outs, processes, process_arrows>>
    /\ ins' = DictSet(ins, name, <<"output_" \o name, style, label, stack>>)

add_output(name, label, style, stack, side) ==
    /\ result' = Returned
    /\ UNCHANGED <<comps, connections, ins, processes, process_arrows>>
    /\ left_outs' = IF side = "left"
                    THEN DictSet(left_outs, name, <<"left_output_" \o name, style, label, stack>>)
                    ELSE left_outs
    /\ right_outs' = IF side = "right"
                     THEN DictSet(right_outs, name, <<"right_output_" \o name, style, label, stack>>)
                     ELSE right_outs

\* connect with the append made before the test of src = target
connect_append_first(src, target, label, style, stack, faded) ==
    /\ connections' = Append(connections,
           [src |-> src, target |-> target, style |-> style,
            label |-> label, stack |-> stack, faded |-> faded])
    /\ result' = IF src = target
                 THEN ValueError("Can not connect component to itself")
                 ELSE Returned
    /\ UNCHANGED <<comps, left_outs, right_outs, ins, processes, process_arrows>>

connect(src, target, label, style, stack, faded) ==
    /\ IF src = target
       THEN /\ result' = ValueError("Can not connect component to itself")
            /\ connections' = connections
       ELSE /\ result' = Returned
            /\ connections' = Append(connections,
                   [src |-> src, target |-> target, style |-> style,
                    label |-> label, stack |-> stack, faded |-> faded])
    /\ UNCHANGED <<comps, left_outs, right_outs, ins, processes, process_arrows>>

add_process(systems, arrow) ==
    /\ processes' = Append(processes, systems)
    /\ process_arrows' = Append(process_arrows, arrow)
    /\ UNCHANGED <<comps, connections, left_outs, right_outs, ins>>
    /\ result' = Returned

-----------------------------------------------------------------------------
(* _parse_label and the node markup. *)

_parse_label(label) ==
    IF label.isList
    THEN "$\\begin{array}{c}" \o Join(label.parts, " \\\\ ") \o "\\end{array}$"
    ELSE "$" \o label.parts[1] \o "$"

node_str(style, node_name, node_label) ==
    "\\node [" \o style \o "] (" \o node_name \o ") {" \o node_label \o "};"

-----------------------------------------------------------------------------
(* _build_node_grid. *)

HasIns == IF ins # <<>> THEN 1 ELSE 0

HasLeftOuts == IF left_outs # <<>> THEN 1 ELSE 0

HasRightOuts == IF right_outs # <<>> THEN 1 ELSE 0

\* size incremented once per marker instead of once per kind of marker
GridSize_per_marker == Len(comps) + Len(ins) + Len(left_outs) + Len(right_outs)

\* size after the three conditional increments
GridSize == Len(comps) + HasIns + HasLeftOuts + HasRightOuts

\* comps_rows / comps_cols: np.arange(len(comps)), shifted by one for the
\* input row and for the left-output column
comps_rows == [k \in 0..(Len(comps) - 1) |-> k + HasIns]

comps_cols == [k \in 0..(Len(comps) - 1) |-> k + HasLeftOuts]

sys_names == [n \in 1..Len(comps) |-> comps[n].node_name]

\* the index a name is mapped to after the component loop: a later component
\* of the same name overwrites the entry of an earlier one
LastIndexOf(name) ==
    CHOOSE k \in 0..(Len(comps) - 1) :
        /\ comps[k + 1].node_name = name
        /\ \A j \in 0..(Len(comps) - 1) : comps[j + 1].node_name = name => j <= k

row_idx_map == [name \in {comps[n].node_name : n \in 1..Len(comps)} |->
                    comps_rows[LastIndexOf(name)]]

col_idx_map == [name \in {comps[n].node_name : n \in 1..Len(comps)} |->
                    comps_cols[LastIndexOf(name)]]

CompStyle(comp) ==
    comp.style \o (IF comp.stack = TRUE THEN ",stack" ELSE "")
               \o (IF comp.faded = TRUE THEN ",faded" ELSE "")
               \o (IF comp.text_width # None
                   THEN ",text width=" \o comp.text_width \o "cm" ELSE "")

CompNode(comp) == node_str(CompStyle(comp), comp.node_name, _parse_label(comp.label))

ConnStyle(conn) ==
    conn.style \o (IF conn.stack = TRUE THEN ",stack" ELSE "")
               \o (IF conn.faded = TRUE THEN ",faded" ELSE "")

od_node_name(src, target) == src \o "-" \o target

ConnNode(conn) ==
    node_str(ConnStyle(conn), od_node_name(conn.src, conn.target), _parse_label(conn.label))

\* the node of an input / output marker; data = (node_name, style, label, stack)
MarkerNode(data) ==
    node_str(data[2] \o (IF data[4] THEN ",stack" ELSE ""), data[1], _parse_label(data[3]))

\* The dictionary lookups of the grid construction, in the order the code
\* makes them: row_idx_map[src] and col_idx_map[target] per connection, then
\* the owner of every left output, right output and input.
RECURSIVE ConnLookups(_)
ConnLookups(conns) ==
    IF conns = <<>> THEN <<>>
    ELSE <<conns[1].src, conns[1].target>> \o ConnLookups(Tail(conns))

GridLookups ==
    ConnLookups(connections) \o Keys(left_outs) \o Keys(right_outs) \o Keys(ins)

\* the first lookup of a name that no component has: the KeyError
HasMissingKey == \E n \in 1..Len(GridLookups) : GridLookups[n] \notin DOMAIN row_idx_map

MissingKey ==
    GridLookups[CHOOSE n \in 1..Len(GridLookups) :
                    /\ GridLookups[n] \notin DOMAIN row_idx_map
                    /\ \A m \in 1..(n - 1) : GridLookups[m] \in DOMAIN row_idx_map]

\* a negative index clamped to the first position
NpIndex_clamped(j, size) == IF j < 0 THEN 0 ELSE j

\* numpy indexing: a negative index counts from the end
NpIndex(j, size) == IF j < 0 THEN j + size ELSE j

\* grid[loc] = node
GridSet(grid, loc, node) ==
    [grid EXCEPT ![loc[1]] = [@ EXCEPT ![NpIndex(loc[2], GridSize)] = node]]

\* The assignments grid[loc] = node in the order the code makes them.
CompPlacements ==
    [n \in 1..Len(comps) |-> <<<<comps_rows[n - 1], comps_cols[n - 1]>>, CompNode(comps[n])>>]

\* the connection node at (target's row, source's column)
ConnPlacements_transposed ==
    [n \in 1..Len(connections) |->
        <<<<row_idx_map[connections[n].target], col_idx_map[connections[n].src]>>,
          ConnNode(connections[n])>>]

ConnPlacements ==
    [n \in 1..Len(connections) |->
        <<<<row_idx_map[connections[n].src], col_idx_map[connections[n].target]>>,
          ConnNode(connections[n])>>]

LeftOutPlacements ==
    [n \in 1..Len(left_outs) |->
        <<<<row_idx_map[left_outs[n][1]], 0>>, MarkerNode(left_outs[n][2])>>]

RightOutPlacements ==
    [n \in 1..Len(right_outs) |->
        <<<<row_idx_map[right_outs[n][1]], -1>>, MarkerNode(right_outs[n][2])>>]

InPlacements ==
    [n \in 1..Len(ins) |->
        <<<<0, col_idx_map[ins[n][1]]>>, MarkerNode(ins[n][2])>>]

Placements ==
    CompPlacements \o ConnPlacements \o LeftOutPlacements \o RightOutPlacements
        \o InPlacements

RECURSIVE Place(_, _)
Place(grid, placements) ==
    IF placements = <<>> THEN grid
    ELSE Place(GridSet(grid, placements[1][1], placements[1][2]), Tail(placements))

\* grid = np.empty((size, size)); grid[:] = ''
EmptyGrid == [i \in 0..(GridSize - 1) |-> [j \in 0..(GridSize - 1) |-> ""]]

\* the grid at the end of _build_node_grid (when no lookup fails)
Grid == Place(EmptyGrid, Placements)

\* '&\n'.join(row)
RECURSIVE JoinRow(_, _)
JoinRow(row, j) ==
    IF j >= GridSize THEN ""
    ELSE row[j] \o (IF j + 1 < GridSize THEN "&\n" \o JoinRow(row, j + 1) ELSE "")

RECURSIVE RowsFrom(_, _)
RowsFrom(grid, i) ==
    IF i >= GridSize THEN ""
    ELSE "%Row " \o ToString(i) \o "\n" \o JoinRow(grid[i], 0) \o "\\\\" \o "\n"
            \o RowsFrom(grid, i + 1)

rows_str == RowsFrom(Grid, 0)

-----------------------------------------------------------------------------
(* _build_edges. *)

edge_string(start, end) == "(" \o start \o ") edge [DataLine] (" \o end \o ")"

ConnHEdges ==
    [n \in 1..Len(connections) |->
        edge_string(connections[n].src,
                    od_node_name(connections[n].src, connections[n].target))]

ConnVEdges ==
    [n \in 1..Len(connections) |->
        edge_string(od_node_name(connections[n].src, connections[n].target),
                    connections[n].target)]

\* the marker edge drawn from the marker to its component
MarkerEdges_reversed(d) == [n \in 1..Len(d) |-> edge_string(d[n][2][1], d[n][1])]

\* one edge from the owning component to the marker, per entry of the dict
MarkerEdges(d) == [n \in 1..Len(d) |-> edge_string(d[n][1], d[n][2][1])]

h_edges == ConnHEdges \o MarkerEdges(left_outs) \o MarkerEdges(right_outs)

v_edges == ConnVEdges \o MarkerEdges(ins)

paths_str ==
    "% Horizontal edges\n" \o Join(h_edges, "\n") \o "\n"
        \o "% Vertical edges\n" \o Join(v_edges, "\n") \o ";"

-----------------------------------------------------------------------------
(* _build_process_chain. *)

RefNames(d) == [n \in 1..Len(d) |-> d[n][2][1]]

output_names == RefNames(ins) \o RefNames(left_outs) \o RefNames(right_outs)

\* the test with "or" in place of "and"
Unknown_or(sys) == ~In(sys, sys_names) \/ ~In(sys, output_names)

\* the test that raises: sys not in sys_names and sys not in output_names
Unknown(sys) == ~In(sys, sys_names) /\ ~In(sys, output_names)

\* the tip join given to every entry after a marker at the start, not only
\* to the second entry
ChainIn_tip_after_start(proc, arrow, i) ==
    LET sys == proc[i + 1]
        start_tip == In(proc[1], output_names)
    IN  IF i = 0 THEN "\\chainin (" \o sys \o ");\n"
        ELSE IF In(sys, output_names) \/ start_tip
             THEN IF arrow
                  THEN "\\chainin (" \o sys \o ") [join=by ProcessTipA];\n"
                  ELSE "\\chainin (" \o sys \o ") [join=by ProcessTip];\n"
             ELSE IF arrow
                  THEN "\\chainin (" \o sys \o ") [join=by ProcessHVA];\n"
                  ELSE "\\chainin (" \o sys \o ") [join=by ProcessHV];\n"

\* the entry i (0-based) of a process as it is chained in
ChainIn(proc, arrow, i) ==
    LET sys == proc[i + 1]
        start_tip == In(proc[1], output_names)
    IN  IF i = 0 THEN "\\chainin (" \o sys \o ");\n"
        ELSE IF In(sys, output_names) \/ (i = 1 /\ start_tip)
             THEN IF arrow
                  THEN "\\chainin (" \o sys \o ") [join=by ProcessTipA];\n"
                  ELSE "\\chainin (" \o sys \o ") [join=by ProcessTip];\n"
             ELSE IF arrow
                  THEN "\\chainin (" \o sys \o ") [join=by ProcessHVA];\n"
                  ELSE "\\chainin (" \o sys \o ") [join=by ProcessHV];\n"

RECURSIVE ChainIns(_, _, _)
ChainIns(proc, arrow, i) ==
    IF i >= Len(proc) THEN ""
    ELSE ChainIn(proc, arrow, i) \o ChainIns(proc, arrow, i + 1)

ProcChain(proc, arrow) ==
    "{ [start chain=process]\n \\begin{pgfonlayer}{process} \n"
        \o ChainIns(proc, arrow, 0) \o "\\end{pgfonlayer}\n}"

\* every chain drawn with the arrow flag of the first sequence
RECURSIVE ChainsFrom_first_arrow(_)
ChainsFrom_first_arrow(n) ==
    IF n > Len(processes) THEN ""
    ELSE ProcChain(processes[n], process_arrows[1]) \o ChainsFrom_first_arrow(n + 1)

RECURSIVE ChainsFrom(_)
ChainsFrom(n) ==
    IF n > Len(processes) THEN ""
    ELSE ProcChain(processes[n], process_arrows[n]) \o ChainsFrom(n + 1)

chain_str == ChainsFrom(1)

\* every entry of every process, in the order the two loops visit them
RECURSIVE Flatten(_)
Flatten(procs) == IF procs = <<>> THEN <<>> ELSE procs[1] \o Flatten(Tail(procs))

HasUnknownSys == \E n \in 1..Len(Flatten(processes)) : Unknown(Flatten(processes)[n])

\* the entry the loops reach first among those the test rejects
FirstUnknownSys ==
    LET all == Flatten(processes)
    IN  all[CHOOSE n \in 1..Len(all) :
                /\ Unknown(all[n])
                /\ \A m \in 1..(n - 1) : ~Unknown(all[m])]

ProcessError(sys) ==
    ValueError("process includes a system named \"" \o sys
                   \o "\" but no system with that name exists.")

-----------------------------------------------------------------------------
(* write: the three builders in the order write() calls them.  The result  *)
(* of a successful call is the text substituted into the templates (nodes, *)
(* edges, process) together with the grid and the two edge lists it was    *)
(* serialized from; the fixed template text and the file system are not    *)
(* modelled.                                                               *)

Written ==
    [kind |-> "written", grid |-> Grid, nodes |-> rows_str,
     h_edges |-> h_edges, v_edges |-> v_edges, edges |-> paths_str,
     process |-> chain_str]

\* write with the style flags appended in place, to the stored components
write_styles_in_place ==
    /\ result' = IF HasMissingKey THEN KeyError(MissingKey)
                 ELSE IF HasUnknownSys THEN ProcessError(FirstUnknownSys)
                 ELSE Written
    /\ comps' = [n \in 1..Len(comps) |-> [comps[n] EXCEPT !.style = CompStyle(comps[n])]]
    /\ UNCHANGED <<connections, left_outs, right_outs, ins, processes, process_arrows>>

write ==
    /\ result' = IF HasMissingKey THEN KeyError(MissingKey)
                 ELSE IF HasUnknownSys THEN ProcessError(FirstUnknownSys)
                 ELSE Written
    /\ UNCHANGED <<comps, connections, left_outs, right_outs, ins, processes, process_arrows>>

-----------------------------------------------------------------------------
(* The calls explored. *)

CompNames == {"A", "B"}

\* (stack, faded, text_width) of a component
CompFlags == {<<FALSE, FALSE, None>>, <<TRUE, TRUE, "3">>}

\* (label, stack, faded) of a connection
ConnArgs == {<<Str("y"), FALSE, FALSE>>, <<List(<<"y", "w">>), TRUE, TRUE>>}

Sides == {"left", "right", "top"}

ProcNames == {"A", "output_A", "right_output_B"}

\* the process sequences of Spec: empty, or one name
ProcSeqs == {<<>>} \cup {<<n>> : n \in ProcNames}

ChainProcNames == {"A", "B", "output_A"}

Seqs(S, n) == UNION {[1..m -> S] : m \in 0..n}

Markers == Len(ins) + Len(left_outs) + Len(right_outs)

Entries == Len(Flatten(processes))

Items == Len(comps) + Len(connections) + Markers + Len(processes)

Next ==
    \/ \E node_name \in CompNames, f \in CompFlags :
          /\ Items < MaxItems
          /\ add_system(node_name, "Analysis", Str("x"), f[1], f[2], f[3])
    \/ \E name \in CompNames, stack \in BOOLEAN :
          /\ HasKey(ins, name) \/ Items < MaxItems
          /\ add_input(name, Str("z"), "DataIO", stack)
    \/ \E name \in CompNames, stack \in BOOLEAN, side \in Sides :
          /\ \/ side = "left" /\ HasKey(left_outs, name)
             \/ side = "right" /\ HasKey(right_outs, name)
             \/ Items < MaxItems
          /\ add_output(name, Str("f"), "DataIO", stack, side)
    \/ \E src \in CompNames, target \in CompNames, a \in ConnArgs :
          /\ Items < MaxItems
          /\ connect(src, target, a[1], "DataInter", a[2], a[3])
    \/ \E systems \in ProcSeqs :
          /\ Items < MaxItems
          /\ add_process(systems, TRUE)
    \/ write

Spec == Init /\ [][Next]_vars

\* The calls explored for the process chains: plain components of distinct
\* names, the input marker of A, and process sequences over the component
\* names and the marker's reference name.
NextChain ==
    \/ \E node_name \in CompNames :
          /\ ~In(node_name, sys_names)
          /\ add_system(node_name, "Analysis", Str("x"), FALSE, FALSE, None)
    \/ add_input("A", Str("z"), "DataIO", FALSE)
    \/ \E systems \in Seqs(ChainProcNames, ChainMaxWeight - Len(processes) - Entries - 1),
             arrow \in BOOLEAN :
          add_process(systems, arrow)
    \/ write

SpecChain == Init /\ [][NextChain]_vars

-----------------------------------------------------------------------------
(* Vocabulary of the properties. *)

SelfConnectError == ValueError("Can not connect component to itself")

\* the last call was write(): a builder call returns None or raises the
\* self-connection error
AfterWrite == result # Returned /\ result # SelfConnectError

Rendered == result.kind = "written"

DeclaredNames == {comps[n].node_name : n \in 1..Len(comps)}

UniqueNames ==
    \A m, n \in 1..Len(comps) : comps[m].node_name = comps[n].node_name => m = n

OwnersDeclared ==
    /\ \A n \in 1..Len(ins) : ins[n][1] \in DeclaredNames
    /\ \A n \in 1..Len(left_outs) : left_outs[n][1] \in DeclaredNames
    /\ \A n \in 1..Len(right_outs) : right_outs[n][1] \in DeclaredNames

EndpointsDeclared ==
    \A n \in 1..Len(connections) :
        connections[n].src \in DeclaredNames /\ connections[n].target \in DeclaredNames

MarkerRefNames ==
    {"output_" \o ins[n][1] : n \in 1..Len(ins)}
        \cup {"left_output_" \o left_outs[n][1] : n \in 1..Len(left_outs)}
        \cup {"right_output_" \o right_outs[n][1] : n \in 1..Len(right_outs)}

\* the names of the process sequences that are neither a component name nor
\* a marker reference name
Offending ==
    UNION {{processes[p][e] : e \in 1..Len(processes[p])} : p \in 1..Len(processes)}
        \ (DeclaredNames \cup MarkerRefNames)

-----------------------------------------------------------------------------
(* C1 *)

\* C1: for every name X and in every state, connect(X, X, ...) raises the
\* validation error and leaves all seven collections of the model unchanged.
C1_SelfConnectFailsModelUnchanged ==
    [][\A X \in CompNames, a \in ConnArgs :
          connect(X, X, a[1], "DataInter", a[2], a[3]) =>
              /\ result' = SelfConnectError
              /\ comps' = comps /\ connections' = connections
              /\ ins' = ins /\ left_outs' = left_outs /\ right_outs' = right_outs
              /\ processes' = processes /\ process_arrows' = process_arrows]_vars

\* a failed connect(X, X) on a model that already holds components and a connection
C1_Witness ==
    /\ result = SelfConnectError
    /\ comps # <<>>
    /\ connections # <<>>

-----------------------------------------------------------------------------
(* C2 *)

AddProcessNeverFails ==
    \A systems \in ProcSeqs : add_process(systems, TRUE) => result' = Returned

\* the render half of the claim as stated: with an offending name the render
\* fails with the error naming it, without one that error is not raised
RenderNamesOffender ==
    AfterWrite =>
        /\ Offending # {} => \E n \in Offending : result = ProcessError(n)
        /\ Offending = {} => result.kind # "ValueError"

\* C2 as stated: add_process never fails, and a render of a model with an
\* undeclared name in a process sequence always fails with the error that
\* identifies the name.
C2_Original == [][AddProcessNeverFails /\ RenderNamesOffender']_vars

\* when the grid lookups succeed the render reaches the process chain
RenderFailsOnOffender ==
    AfterWrite =>
        /\ Offending # {} => result.kind \in {"KeyError", "ValueError"}
        /\ (Offending # {} /\ EndpointsDeclared /\ OwnersDeclared) =>
              \E n \in Offending : result = ProcessError(n)
        /\ Offending = {} => result.kind # "ValueError"

\* C2 (amended): add_process never fails; a render of a model with an
\* undeclared name in a process sequence always fails, and it fails with the
\* error identifying an offending name whenever every connection endpoint and
\* every marker owner is a declared component (otherwise the grid
\* construction fails first, on the lookup of the undeclared component); a
\* render of a model without such a name does not raise that error.
C2_RenderFailsOnUndeclaredProcessName ==
    [][AddProcessNeverFails /\ RenderFailsOnOffender']_vars

\* a render that failed on the undeclared name of a process sequence
C2_Witness ==
    /\ AfterWrite
    /\ Offending # {}
    /\ comps # <<>>
    /\ EndpointsDeclared /\ OwnersDeclared
    /\ \E n \in Offending : result = ProcessError(n)

-----------------------------------------------------------------------------
(* C3 *)

KindCount(d) == IF Len(d) >= 1 THEN 1 ELSE 0

\* C3: with uniquely named components and every marker owned by a declared
\* component, the grid is square of dimension N + i + l + r (i, l, r = 1 iff
\* an input, left output, right output exists) and component k (0-based) is
\* at cell (k + i, k + l); checked of the size and indices the layout computes
\* and of the grid a render produces.
C3_GridDimensionAndDiagonal ==
    (UniqueNames /\ OwnersDeclared) =>
        LET N == Len(comps)
            i == KindCount(ins)
            l == KindCount(left_outs)
            r == KindCount(right_outs)
            d == N + i + l + r
        IN  /\ GridSize = d
            /\ \A k \in 0..(N - 1) :
                  /\ row_idx_map[comps[k + 1].node_name] = k + i
                  /\ col_idx_map[comps[k + 1].node_name] = k + l
            /\ Rendered =>
                  /\ DOMAIN result.grid = 0..(d - 1)
                  /\ \A row \in 0..(d - 1) : DOMAIN result.grid[row] = 0..(d - 1)
                  /\ \A k \in 0..(N - 1) :
                        result.grid[k + i][k + l] = CompNode(comps[k + 1])
                  /\ (i = 0 /\ l = 0 /\ r = 0) =>
                        /\ d = N
                        /\ \A k \in 0..(N - 1) : result.grid[k][k] = CompNode(comps[k + 1])

\* a rendered model of two components with two input markers: a 3x3 grid
C3_Witness ==
    /\ Rendered
    /\ UniqueNames /\ OwnersDeclared
    /\ Len(comps) = 2
    /\ Len(ins) = 2
    /\ DOMAIN result.grid = 0..2

-----------------------------------------------------------------------------
(* C4 *)

\* C4: a render places, for every connection (S, T), a node named S-T at
\* (row of S, column of T) and derives for it one horizontal edge S -> S-T and
\* one vertical edge S-T -> T (the n-th connection's edges are the n-th of
\* each list, which holds no other edge than the markers'); for A, B, one
\* connection A -> B labelled y and no markers the grid is 2x2 with A at
\* (0,0), B at (1,1) and the node A-B with label $y$ at (0,1).
C4_ConnectionNodeAndEdges ==
    Rendered =>
        /\ \A n \in 1..Len(connections) :
              LET S == connections[n].src
                  T == connections[n].target
                  name == S \o "-" \o T
              IN  /\ \E m \in 1..Len(connections) :
                        /\ connections[m].src = S /\ connections[m].target = T
                        /\ result.grid[row_idx_map[S]][col_idx_map[T]] =
                              node_str(ConnStyle(connections[m]), name,
                                       _parse_label(connections[m].label))
                  /\ result.h_edges[n] = "(" \o S \o ") edge [DataLine] (" \o name \o ")"
                  /\ result.v_edges[n] = "(" \o name \o ") edge [DataLine] (" \o T \o ")"
        /\ Len(result.h_edges) = Len(connections) + Len(left_outs) + Len(right_outs)
        /\ Len(result.v_edges) = Len(connections) + Len(ins)
        /\ ( /\ Len(comps) = 2 /\ comps[1].node_name = "A" /\ comps[2].node_name = "B"
             /\ ins = <<>> /\ left_outs = <<>> /\ right_outs = <<>>
             /\ Len(connections) = 1
             /\ connections[1].src = "A" /\ connections[1].target = "B"
             /\ connections[1].label = Str("y") ) =>
                  /\ DOMAIN result.grid = 0..1
                  /\ result.grid[0][0] = CompNode(comps[1])
                  /\ result.grid[1][1] = CompNode(comps[2])
                  /\ result.grid[0][1] =
                        node_str(ConnStyle(connections[1]), "A-B", "$y$")
                  /\ result.grid[1][0] = ""

\* the rendered scenario: A, B, one connection A -> B labelled y
C4_Witness ==
    /\ Rendered
    /\ Len(comps) = 2 /\ comps[1].node_name = "A" /\ comps[2].node_name = "B"
    /\ ins = <<>> /\ left_outs = <<>> /\ right_outs = <<>>
    /\ Len(connections) = 1
    /\ connections[1].src = "A" /\ connections[1].target = "B"
    /\ connections[1].label = Str("y")
    /\ result.grid[0][1] = "\\node [DataInter] (A-B) {$y$};"

-----------------------------------------------------------------------------
(* C5 *)

\* the scenario: the single component A with one input marker, labelled z
InputScenario ==
    /\ Len(comps) = 1 /\ comps[1].node_name = "A"
    /\ Len(ins) = 1 /\ ins[1][1] = "A" /\ ins[1][2][3] = Str("z")
    /\ left_outs = <<>> /\ right_outs = <<>> /\ connections = <<>>

InputScenarioGrid ==
    /\ DOMAIN result.grid = 0..1
    /\ result.grid[1][0] = CompNode(comps[1])
    /\ result.grid[0][0] = node_str(IF ins[1][2][4] THEN "DataIO,stack" ELSE "DataIO",
                                    ins[1][2][1], "$z$")
    /\ result.grid[0][1] = "" /\ result.grid[1][1] = ""

\* every input marker yields one vertical edge, after the connections', from
\* its owner to the reference name ref(owner), and a process naming that
\* reference name is not rejected for it
InputEdges(ref(_)) ==
    /\ Len(result.v_edges) = Len(connections) + Len(ins)
    /\ \A n \in 1..Len(ins) :
          result.v_edges[Len(connections) + n] =
              "(" \o ins[n][1] \o ") edge [DataLine] (" \o ref(ins[n][1]) \o ")"

RefNameAccepted(ref(_)) ==
    \A n \in 1..Len(ins) : result # ProcessError(ref(ins[n][1]))

RefByLabel(owner) == "output_" \o Get(ins, owner)[3].parts[1]

RefByOwner(owner) == "output_" \o owner

\* C5 as stated: the marker's reference name is output_z, derived from the
\* marker's own name (label) z.
C5_Original ==
    /\ (Rendered /\ InputScenario) =>
          /\ InputScenarioGrid
          /\ In("(A) edge [DataLine] (output_z)", result.v_edges)
    /\ Rendered => InputEdges(RefByLabel)
    /\ AfterWrite => RefNameAccepted(RefByLabel)

\* C5 (amended): for the single component A with one input marker labelled
\* z the grid is 2x2, A at (1,0), the marker at (0,0), and the vertical edge
\* list holds the edge from A to output_A: the reference name of an input
\* marker is "output_" followed by the name of its owning component; every
\* input marker yields exactly one vertical edge from its owner to that
\* reference name, which is the name process sequences accept.
C5_InputMarkerEdge ==
    /\ (Rendered /\ InputScenario) =>
          /\ InputScenarioGrid
          /\ In("(A) edge [DataLine] (output_A)", result.v_edges)
          /\ ~In("(A) edge [DataLine] (output_z)", result.v_edges)
    /\ Rendered => InputEdges(RefByOwner)
    /\ AfterWrite => RefNameAccepted(RefByOwner)

\* the rendered scenario, with a process sequence that names the marker
C5_Witness ==
    /\ Rendered /\ InputScenario
    /\ processes = << <<"output_A">> >>
    /\ result.v_edges = <<"(A) edge [DataLine] (output_A)">>

-----------------------------------------------------------------------------
(* C6 *)

\* C6: a render (a step whose result is that of write()) leaves the seven
\* collections as they were, style tags included, and a render that follows a
\* render with no builder call in between produces the same grid, edge and
\* process-chain markup (or the same failure).
C6_RenderDeterministicAndPure ==
    [][AfterWrite' =>
          /\ comps' = comps /\ connections' = connections
          /\ ins' = ins /\ left_outs' = left_outs /\ right_outs' = right_outs
          /\ processes' = processes /\ process_arrows' = process_arrows
          /\ AfterWrite => result' = result]_vars

\* a rendered model holding a stacked component, a stacked connection and a
\* process sequence
C6_Witness ==
    /\ Rendered
    /\ \E n \in 1..Len(comps) : comps[n].stack
    /\ \E n \in 1..Len(connections) : connections[n].stack
    /\ \E n \in 1..Len(processes) : processes[n] # <<>>

-----------------------------------------------------------------------------
(* C7 *)

UniqueKeys(d) == \A m, n \in 1..Len(d) : d[m][1] = d[n][1] => m = n

KeySet(d) == {d[n][1] : n \in 1..Len(d)}

\* d2 is d with the entry of key k set to v and every other entry as it was
OnlyKeySet(d, d2, k, v) ==
    /\ KeySet(d2) = KeySet(d) \cup {k}
    /\ \A n \in 1..Len(d2) : d2[n][1] = k => d2[n][2] = v
    /\ \A n \in 1..Len(d) : d[n][1] # k =>
          \E m \in 1..Len(d2) : d2[m] = d[n]

\* l2 is l with one element appended
AppendedTo(l, l2) == Len(l2) = Len(l) + 1 /\ \A n \in 1..Len(l) : l2[n] = l[n]

\* C7: at most one input marker per component and one output marker per
\* (component, side), the most recently declared one; a step that changes
\* the input markers, or the output markers of one side, sets the entry of
\* one key and changes no other collection; a step that changes the
\* components, the connections or the process sequences appends one element
\* and changes no other collection.
C7_AppendOnlyExceptMarkerOverwrite ==
    [][/\ UniqueKeys(ins') /\ UniqueKeys(left_outs') /\ UniqueKeys(right_outs')
       /\ \A name \in CompNames, stack \in BOOLEAN :
             /\ add_input(name, Str("z"), "DataIO", stack) =>
                   /\ HasKey(ins', name)
                   /\ Get(ins', name) = <<"output_" \o name, "DataIO", Str("z"), stack>>
             /\ add_output(name, Str("f"), "DataIO", stack, "left") =>
                   /\ HasKey(left_outs', name)
                   /\ Get(left_outs', name) =
                         <<"left_output_" \o name, "DataIO", Str("f"), stack>>
             /\ add_output(name, Str("f"), "DataIO", stack, "right") =>
                   /\ HasKey(right_outs', name)
                   /\ Get(right_outs', name) =
                         <<"right_output_" \o name, "DataIO", Str("f"), stack>>
       /\ ins' # ins =>
             /\ \E name \in KeySet(ins') : OnlyKeySet(ins, ins', name, Get(ins', name))
             /\ comps' = comps /\ connections' = connections
             /\ left_outs' = left_outs /\ right_outs' = right_outs
             /\ processes' = processes /\ process_arrows' = process_arrows
       /\ left_outs' # left_outs =>
             /\ \E name \in KeySet(left_outs') :
                   OnlyKeySet(left_outs, left_outs', name, Get(left_outs', name))
             /\ comps' = comps /\ connections' = connections
             /\ ins' = ins /\ right_outs' = right_outs
             /\ processes' = processes /\ process_arrows' = process_arrows
       /\ right_outs' # right_outs =>
             /\ \E name \in KeySet(right_outs') :
                   OnlyKeySet(right_outs, right_outs', name, Get(right_outs', name))
             /\ comps' = comps /\ connections' = connections
             /\ ins' = ins /\ left_outs' = left_outs
             /\ processes' = processes /\ process_arrows' = process_arrows
       /\ comps' # comps =>
             /\ AppendedTo(comps, comps')
             /\ connections' = connections
             /\ ins' = ins /\ left_outs' = left_outs /\ right_outs' = right_outs
             /\ processes' = processes /\ process_arrows' = process_arrows
       /\ connections' # connections =>
             /\ AppendedTo(connections, connections')
             /\ comps' = comps
             /\ ins' = ins /\ left_outs' = left_outs /\ right_outs' = right_outs
             /\ processes' = processes /\ process_arrows' = process_arrows
       /\ (processes' # processes \/ process_arrows' # process_arrows) =>
             /\ AppendedTo(processes, processes')
             /\ AppendedTo(process_arrows, process_arrows')
             /\ comps' = comps /\ connections' = connections
             /\ ins' = ins /\ left_outs' = left_outs /\ right_outs' = right_outs
      ]_vars

\* component A holding an input marker, a left and a right output marker at
\* once, each under its own key
C7_Witness ==
    /\ comps # <<>>
    /\ Len(ins) = 1 /\ ins[1][1] = "A" /\ ins[1][2][4] = TRUE
    /\ Len(left_outs) = 1 /\ left_outs[1][1] = "A" /\ left_outs[1][2][4] = FALSE
    /\ Len(right_outs) = 1 /\ right_outs[1][1] = "A"

-----------------------------------------------------------------------------
(* C10 *)

\* the declared items, and the cell and node of each, for a model with
\* uniquely named components that owns every endpoint and marker
DeclaredItems ==
    ({"comp"} \X (1..Len(comps))) \cup ({"conn"} \X (1..Len(connections)))
        \cup ({"in"} \X (1..Len(ins))) \cup ({"left"} \X (1..Len(left_outs)))
        \cup ({"right"} \X (1..Len(right_outs)))

PositionOf(name) == CHOOSE k \in 0..(Len(comps) - 1) : comps[k + 1].node_name = name

CellOf(item) ==
    LET i == KindCount(ins)
        l == KindCount(left_outs)
        d == Len(comps) + i + l + KindCount(right_outs)
        n == item[2]
    IN  CASE item[1] = "comp"  -> <<n - 1 + i, n - 1 + l>>
          [] item[1] = "conn"  -> <<PositionOf(connections[n].src) + i,
                                    PositionOf(connections[n].target) + l>>
          [] item[1] = "in"    -> <<0, PositionOf(ins[n][1]) + l>>
          [] item[1] = "left"  -> <<PositionOf(left_outs[n][1]) + i, 0>>
          [] item[1] = "right" -> <<PositionOf(right_outs[n][1]) + i, d - 1>>

NodeOf(item) ==
    CASE item[1] = "comp"  -> CompNode(comps[item[2]])
      [] item[1] = "conn"  -> ConnNode(connections[item[2]])
      [] item[1] = "in"    -> MarkerNode(ins[item[2]][2])
      [] item[1] = "left"  -> MarkerNode(left_outs[item[2]][2])
      [] item[1] = "right" -> MarkerNode(right_outs[item[2]][2])

SameEndpoints(a, b) ==
    /\ a[1] = "conn" /\ b[1] = "conn"
    /\ connections[a[2]].src = connections[b[2]].src
    /\ connections[a[2]].target = connections[b[2]].target

WellFormed == UniqueNames /\ EndpointsDeclared /\ OwnersDeclared

\* C10: with uniquely named components that own every connection endpoint
\* and marker, two distinct declared items share a cell only when they are
\* connections with the same source and target, the cell then holds the node
\* of the later one; a connection node is never on a component's cell, in the
\* input row or in an output column; every cell no item is placed in is empty.
C10_CellCollisionsOnlyBetweenSameConnections ==
    (WellFormed /\ Rendered) =>
        LET i == KindCount(ins)
            l == KindCount(left_outs)
            r == KindCount(right_outs)
            d == Len(comps) + i + l + r
        IN  /\ \A a, b \in DeclaredItems :
                  (a # b /\ CellOf(a) = CellOf(b)) => SameEndpoints(a, b)
            /\ \A row, col \in 0..(d - 1) :
                  LET here == {a \in DeclaredItems : CellOf(a) = <<row, col>>}
                  IN  IF here = {} THEN result.grid[row][col] = ""
                      ELSE \E a \in here :
                              /\ \A b \in here : b[2] <= a[2]
                              /\ result.grid[row][col] = NodeOf(a)
            /\ \A n \in 1..Len(connections) :
                  LET cell == CellOf(<<"conn", n>>)
                  IN  /\ \A k \in 1..Len(comps) : cell # CellOf(<<"comp", k>>)
                      /\ i = 1 => cell[1] # 0
                      /\ l = 1 => cell[2] # 0
                      /\ r = 1 => cell[2] # d - 1

\* a rendered model in which two connections with the same endpoints and
\* different labels share a cell
C10_Witness ==
    /\ WellFormed /\ Rendered
    /\ Len(comps) = 2
    /\ Len(connections) = 2
    /\ SameEndpoints(<<"conn", 1>>, <<"conn", 2>>)
    /\ connections[1].label # connections[2].label
    /\ result.grid[CellOf(<<"conn", 1>>)[1]][CellOf(<<"conn", 1>>)[2]]
          = ConnNode(connections[2])

-----------------------------------------------------------------------------
(* C8, C9: the process chains. *)

IsMarker(name) == name \in MarkerRefNames

ChainHeader == "{ [start chain=process]\n \\begin{pgfonlayer}{process} \n"

ChainFooter == "\\end{pgfonlayer}\n}"

JoinStyle(tip, arrow) ==
    IF tip THEN (IF arrow THEN "ProcessTipA" ELSE "ProcessTip")
    ELSE (IF arrow THEN "ProcessHVA" ELSE "ProcessHV")

\* the markup of entries e.. of a sequence (1-based), entry e > 1 joined with
\* the tip style iff tip[e]
RECURSIVE LinksFrom(_, _, _, _)
LinksFrom(proc, arrow, tip, e) ==
    IF e > Len(proc) THEN ""
    ELSE (IF e = 1 THEN "\\chainin (" \o proc[e] \o ");\n"
          ELSE "\\chainin (" \o proc[e] \o ") [join=by "
                  \o JoinStyle(tip[e], arrow) \o "];\n")
            \o LinksFrom(proc, arrow, tip, e + 1)

\* the markup of the sequences n.., tips[n] giving the tip links of sequence n
RECURSIVE MarkupFrom(_, _)
MarkupFrom(tips, n) ==
    IF n > Len(processes) THEN ""
    ELSE ChainHeader \o LinksFrom(processes[n], process_arrows[n], tips[n], 1)
            \o ChainFooter \o MarkupFrom(tips, n + 1)

\* tip iff the link's source, the entry before, is a marker
TipsBySource ==
    [n \in 1..Len(processes) |->
        [e \in 1..Len(processes[n]) |->
            e > 1 /\ (IsMarker(processes[n][e - 1])
                        \/ (e = 2 /\ IsMarker(processes[n][1])))]]

\* tip iff the link's target, the entry itself, is a marker, or the entry is
\* the second of a sequence that starts with a marker
TipsByTarget ==
    [n \in 1..Len(processes) |->
        [e \in 1..Len(processes[n]) |->
            e > 1 /\ (IsMarker(processes[n][e])
                        \/ (e = 2 /\ IsMarker(processes[n][1])))]]

\* C8 as stated: the link into entry i has the tip join style exactly when
\* its source, entry i-1, is a marker, or entry i is the second entry after a
\* marker; every other link has the standard style.
C8_Original == Rendered => result.process = MarkupFrom(TipsBySource, 1)

\* C8 (amended): the link joining entry i-1 to entry i (i >= 1) has the tip
\* join style exactly when the link's target, entry i, is an input/output
\* marker, or when entry i is the second entry of a sequence whose first
\* entry is a marker; every other link has the standard
\* horizontal-then-vertical style.
C8_TipJoinWhenTargetIsMarker == Rendered => result.process = MarkupFrom(TipsByTarget, 1)

\* a rendered sequence of three entries that starts with a marker: the
\* second entry is joined by a tip, the third is not
C8_Witness ==
    /\ Rendered
    /\ \E n \in 1..Len(processes) :
          /\ Len(processes[n]) = 3
          /\ IsMarker(processes[n][1])
          /\ ~IsMarker(processes[n][2])
          /\ ~IsMarker(processes[n][3])

\* the links: entry e > 1 of sequence n
Links ==
    UNION {{<<n, e>> : e \in 2..Len(processes[n])} : n \in 1..Len(processes)}

\* C9: one chain per sequence, in declaration order, entries in declared
\* order; the first entry has no join, every later entry exactly one, of the
\* arrowed variant iff that sequence's arrow flag is set (whichever of the
\* tip and standard styles each link has); the single sequence [A, B] with
\* arrows chains in A without a join and B by ProcessHVA.
C9_OneChainPerSequenceArrowPerSequence ==
    Rendered =>
        /\ \E tipped \in SUBSET Links :
              result.process =
                  MarkupFrom([n \in 1..Len(processes) |->
                                 [e \in 1..Len(processes[n]) |-> <<n, e>> \in tipped]], 1)
        /\ (processes = << <<"A", "B">> >> /\ process_arrows = <<TRUE>>) =>
              result.process =
                  "{ [start chain=process]\n \\begin{pgfonlayer}{process} \n"
                    \o "\\chainin (A);\n"
                    \o "\\chainin (B) [join=by ProcessHVA];\n"
                    \o "\\end{pgfonlayer}\n}"

\* two rendered sequences of two entries each, the first plain, the second
\* with arrows
C9_Witness ==
    /\ Rendered
    /\ Len(processes) = 2
    /\ Len(processes[1]) = 2 /\ Len(processes[2]) = 2
    /\ process_arrows = <<FALSE, TRUE>>

====
